---- MODULE Spec2Model ----
(***************************************************************************)
(* Model of s29011_2025-2.py: the NCBIRetriever class (search,             *)
(* _fetch_batch, fetch_all), the report writers and main().                *)
(*                                                                         *)
(* Two specifications share the actions of the retriever:                  *)
(*   Spec      a client that uses one NCBIRetriever object directly        *)
(*             (search, fetch_all, _fetch_batch in any order);             *)
(*   SpecMain  the program main(), from the search to the process exit.    *)
(*                                                                         *)
(* The remote service is the environment: every esearch / efetch response  *)
(* is a nondeterministic choice (success, malformed, short, failure).      *)
(* A record is identified by its position in the remote result set.        *)
(***************************************************************************)
EXTENDS Integers, Sequences, FiniteSets, TLC

\* ------------------------------------------------------------------ bounds

BATCH == 500         \* the per-request record cap (fetch_all, _fetch_batch)
MaxCount == 1200     \* the largest total count a search reports
MaxShort == 1        \* a short or broken response delivers 0..MaxShort records
MaxSearches == 2     \* searches one client issues on one retriever

\* Python's None and a present value
None == <<>>
Some(v) == <<v>>
Val(o) == o[1]
\* the text of a Count field that int() rejects
NotInt == <<0, 0>>

Min(a, b) == IF a <= b THEN a ELSE b
Max(a, b) == IF a >= b THEN a ELSE b

\* total_count values the remote search reports
CountChoices == {0, 1, BATCH, BATCH + 1, MaxCount}
\* limit values: absent, negative, zero, positive
LimitChoices == {None} \cup {Some(l) : l \in {-1, 0, 1, 300, BATCH, BATCH + 1}}

VARIABLES
    pc,          \* main(): "search", "fetch", "write_csv", "plot", "exit"; "client" under Spec
    exit_code,   \* process exit status, None while running
    error,       \* the exception that reached the caller, "" if none
    max_records, \* main(): the record limit read from the prompt
    records,     \* main(): the realized list
    artifacts,   \* output files written, in order
    webenv,      \* self.webenv
    query_key,   \* self.query_key
    count,       \* self.count
    sessions,    \* remote: result-set size of each stored search a handle still names
    searches,    \* remote: esearch calls issued
    calls,       \* remote: efetch calls issued, in order
    sleeps,      \* time.sleep invocations
    g_pc,        \* fetch_all generator: "none", "created", "loop", "yielded", "done", "failed"
    limit,       \* fetch_all: the limit argument
    count0,      \* self.count as read when the body of fetch_all started
    remaining,   \* fetch_all local
    start,       \* fetch_all local
    batch,       \* fetch_all local
    stream,      \* _fetch_batch: <<next position, end position, ends cleanly>>
    yielded,     \* records fetch_all has yielded to its consumer, in order
    fetched,     \* client: result of a direct _fetch_batch call, None if never made
    last_res,    \* remote: the response of the last esearch call, None before the first
    returned,    \* the value the last search that returned has returned, None if none did
    taxid,       \* search argument
    min_len,     \* search argument
    max_len,     \* search argument
    query,       \* the term search builds, as the pieces the f-strings join
    in_records,  \* the record list given to write_csv and plot_lengths
    rows,        \* write_csv: the rows written, None before
    plotted      \* plot_lengths: <<accs, lengths>> as plotted, None before

retr == <<webenv, query_key, count>>
remote == <<sessions, searches, calls, sleeps, last_res, returned>>
genv == <<g_pc, limit, count0, remaining, start, batch, stream, yielded>>
mainv == <<pc, exit_code, error, max_records, records, artifacts>>
vars == <<pc, exit_code, error, max_records, records, artifacts, webenv, query_key,
          count, sessions, searches, calls, sleeps, g_pc, limit, count0, remaining,
          start, batch, stream, yielded, fetched, last_res, returned, taxid, min_len,
          max_len, query, in_records, rows, plotted>>
\* the state of the query builder and of the two writers
aux == <<taxid, min_len, max_len, query, in_records, rows, plotted>>

\* ------------------------------------------------------------ remote service

\* Responses of the k-th esearch call: a transport error, a well-formed
\* response, or a response that lacks a field or carries a non-integer Count.
SearchResponses(k) ==
    {[err |-> TRUE, WebEnv |-> None, QueryKey |-> None, Count |-> None, size |-> 0]}
    \cup {[err |-> FALSE, WebEnv |-> Some(k), QueryKey |-> Some(k), Count |-> Some(c), size |-> c]
            : c \in CountChoices}
    \cup {[err |-> FALSE, WebEnv |-> None, QueryKey |-> Some(k), Count |-> Some(1), size |-> 1],
          [err |-> FALSE, WebEnv |-> Some(k), QueryKey |-> None, Count |-> Some(1), size |-> 1],
          [err |-> FALSE, WebEnv |-> Some(k), QueryKey |-> Some(k), Count |-> None, size |-> 1],
          [err |-> FALSE, WebEnv |-> Some(k), QueryKey |-> Some(k), Count |-> NotInt, size |-> 1]}

\* Records the stored result set holds in the window (retstart, retmax).
Available(w, q, retstart, retmax) ==
    IF w = q /\ Val(w) \in DOMAIN sessions
    THEN Max(0, Min(retmax, sessions[Val(w)] - retstart))
    ELSE 0

\* Responses of one efetch call: n records are delivered, then the stream ends
\* cleanly (ok) or raises (~ok; with n = 0 the call itself fails).
FetchResponses(w, q, retstart, retmax) ==
    LET avail == Available(w, q, retstart, retmax) IN
    IF w # q THEN {[n |-> 0, ok |-> FALSE]}
    ELSE {[n |-> avail, ok |-> TRUE]}
         \cup {[n |-> n, ok |-> b] : n \in 0..Min(MaxShort, avail), b \in BOOLEAN}

\* ---------------------------------------------------------------- exceptions

\* An exception leaves the retriever's methods: main() does not catch it (the
\* interpreter exits with status 1), a client under Spec observes it.
\* faulty variant: the exception is swallowed
RaiseSwallowed(e) == UNCHANGED <<error, pc, exit_code>>

\* faulty variant: the exception is recorded and the caller carries on
RaiseNoExit(e) == error' = e /\ UNCHANGED <<pc, exit_code>>

Raise(e) ==
    /\ error' = e
    /\ IF pc = "client"
       THEN UNCHANGED <<pc, exit_code>>
       ELSE pc' = "exit" /\ exit_code' = Some(1)

\* --------------------------------------------------------- NCBIRetriever.search

\* The exception search raises on response res, "" if it returns.
\* faulty variant: absent fields are read with a default instead of res[...]
SearchErrorLenient(res) ==
    IF res.err THEN "RemoteError"
    ELSE IF res.Count = NotInt THEN "ValueError"
    ELSE ""

SearchError(res) ==
    IF res.err THEN "RemoteError"
    ELSE IF res.WebEnv = None THEN "KeyError"
    ELSE IF res.QueryKey = None THEN "KeyError"
    ELSE IF res.Count = None THEN "KeyError"
    ELSE IF res.Count = NotInt THEN "ValueError"
    ELSE ""

\* <<webenv, query_key, count>> after search ran on response res: the three
\* assignments run in this order and stop at the first one that raises.
SearchState(res) ==
    IF res.err \/ res.WebEnv = None THEN <<webenv, query_key, count>>
    ELSE IF res.QueryKey = None THEN <<res.WebEnv, query_key, count>>
    ELSE IF res.Count = None \/ res.Count = NotInt THEN <<res.WebEnv, res.QueryKey, count>>
    ELSE <<res.WebEnv, res.QueryKey, Val(res.Count)>>

\* The stored result sets after the k-th esearch answered res: the new one is
\* stored under token k; a result set that neither handle of the retriever
\* names any more can never be fetched from again and is dropped.
Stored(k, res) ==
    LET all == IF res.err THEN sessions
               ELSE [t \in DOMAIN sessions \cup {k} |-> IF t = k THEN res.size ELSE sessions[t]]
        named == {Val(h) : h \in {SearchState(res)[1], SearchState(res)[2]} \ {None}}
    IN [t \in DOMAIN all \cap named |-> all[t]]

\* One esearch call, then the assignments.
search(res) ==
    /\ searches' = searches + 1
    /\ last_res' = res
    /\ returned' = IF SearchError(res) = "" THEN Some(SearchState(res)[3]) ELSE returned
    /\ sessions' = Stored(searches + 1, res)
    /\ webenv' = SearchState(res)[1]
    /\ query_key' = SearchState(res)[2]
    /\ count' = SearchState(res)[3]

\* --------------------------------------------------- NCBIRetriever._fetch_batch

\* The use-before-search guard.
\* faulty variant: "and" for "or"
NotInitializedBoth(w, q) == w = None /\ q = None

NotInitialized(w, q) == w = None \/ q = None

\* The efetch call of one batch, as logged by the remote service.
FetchCall(retstart, retmax, resp) ==
    [retstart |-> retstart, retmax |-> retmax, webenv |-> webenv, query_key |-> query_key,
     sleeps |-> sleeps, yielded |-> Len(yielded), n |-> resp.n, ok |-> resp.ok]

\* ------------------------------------------------------ NCBIRetriever.fetch_all

\* remaining as first computed
\* faulty variant: the limit is ignored
InitialRemainingNoLimit(lim, cnt) == cnt

\* faulty variant: a given limit is taken as it is, the count is not consulted
InitialRemainingNoCount(lim, cnt) == IF lim = None THEN cnt ELSE Val(lim)

InitialRemaining(lim, cnt) == IF lim = None THEN cnt ELSE Min(Val(lim), cnt)

LoopCond(rem) == rem > 0

\* faulty variant: the cap is dropped
BatchSizeNoCap(rem) == rem

BatchSize(rem) == Min(rem, BATCH)

\* faulty variant: a full batch is subtracted whatever was requested
NextRemainingFullBatch(rem, b) == rem - BATCH

NextRemaining(rem, b) == rem - b

\* faulty variant: "=" for "+="
NextStartAssigned(st, b) == b

\* faulty variant: the offset advances by a full batch whatever was requested
NextStartFullBatch(st, b) == st + BATCH

NextStart(st, b) == st + b

\* faulty variant: the record is put in front of those already forwarded
ForwardInFront(ys, rec) == <<rec>> \o ys

\* "yield rec": the consumer receives rec after the records ys
Forward(ys, rec) == Append(ys, rec)

\* faulty variant: the emptiness test is missing
NoRecordsNever(recs) == FALSE

\* "if not records"
NoRecords(recs) == recs = <<>>

\* faulty variant: the zero test is missing
NoMatchesNever(total) == FALSE

\* "if total == 0"
NoMatches(total) == total = 0

\* list(...) in main() returns when the generator stops.
OnStop ==
    IF pc = "fetch"
    THEN /\ records' = yielded
         /\ IF NoRecords(yielded)
            THEN pc' = "exit" /\ exit_code' = Some(1)
            ELSE pc' = "write_csv" /\ UNCHANGED exit_code
         /\ UNCHANGED <<error, max_records, artifacts>>
    ELSE UNCHANGED mainv

\* faulty variant: the delay is left out
SleepSkipped(n) == n

\* "time.sleep(delay)": one more invocation
Sleep(n) == n + 1

\* the statements after the for loop: one batch is finished
EndOfBatch(b) ==
    /\ remaining' = NextRemaining(remaining, b)
    /\ start' = NextStart(start, b)
    /\ sleeps' = Sleep(sleeps)
    /\ g_pc' = "loop"

\* First next(): the body starts.
GenStart ==
    /\ pc \in {"fetch", "client"}
    /\ g_pc = "created"
    /\ count0' = count
    /\ remaining' = InitialRemaining(limit, count)
    /\ start' = 0
    /\ g_pc' = "loop"
    /\ UNCHANGED <<limit, batch, stream, yielded, retr, remote, mainv, fetched, aux>>

\* The while test fails: the generator stops.
GenStop ==
    /\ pc \in {"fetch", "client"}
    /\ g_pc = "loop"
    /\ ~LoopCond(remaining)
    /\ g_pc' = "done"
    /\ OnStop
    /\ UNCHANGED <<limit, count0, remaining, start, batch, stream, yielded, retr, remote,
                   fetched, aux>>

\* The while test holds: one efetch call, up to the first record of its stream.
GenBatch ==
    /\ pc \in {"fetch", "client"}
    /\ g_pc = "loop"
    /\ LoopCond(remaining)
    /\ LET b == BatchSize(remaining) IN
       /\ batch' = b
       /\ IF NotInitialized(webenv, query_key)
          THEN /\ g_pc' = "failed"
               /\ Raise("RuntimeError")
               /\ UNCHANGED <<calls, remaining, start, sleeps, stream, yielded,
                              max_records, records, artifacts>>
          ELSE \E resp \in FetchResponses(webenv, query_key, start, b) :
                 /\ calls' = Append(calls, FetchCall(start, b, resp))
                 /\ IF resp.n > 0
                    THEN /\ yielded' = Forward(yielded, start)
                         /\ stream' = <<start + 1, start + resp.n, resp.ok>>
                         /\ g_pc' = "yielded"
                         /\ UNCHANGED <<remaining, start, sleeps, mainv>>
                    ELSE IF resp.ok
                    THEN /\ EndOfBatch(b)
                         /\ stream' = <<start, start, TRUE>>
                         /\ UNCHANGED <<yielded, mainv>>
                    ELSE /\ g_pc' = "failed"
                         /\ stream' = <<start, start, FALSE>>
                         /\ Raise("RemoteFetchError")
                         /\ UNCHANGED <<remaining, start, sleeps, yielded, max_records,
                                        records, artifacts>>
    /\ UNCHANGED <<limit, count0, retr, sessions, searches, last_res, returned, fetched, aux>>

\* next() on the suspended generator: the next record of the stream, or the
\* end of the batch, or the failure of the stream.
GenResume ==
    /\ pc \in {"fetch", "client"}
    /\ g_pc = "yielded"
    /\ IF stream[1] < stream[2]
       THEN /\ yielded' = Forward(yielded, stream[1])
            /\ stream' = <<stream[1] + 1, stream[2], stream[3]>>
            /\ UNCHANGED <<g_pc, remaining, start, sleeps, mainv>>
       ELSE IF stream[3]
       THEN /\ EndOfBatch(batch)
            /\ UNCHANGED <<stream, yielded, mainv>>
       ELSE /\ g_pc' = "failed"
            /\ Raise("RemoteFetchError")
            /\ UNCHANGED <<stream, remaining, start, sleeps, yielded, max_records, records, artifacts>>
    /\ UNCHANGED <<limit, count0, batch, retr, sessions, searches, last_res, returned, calls,
                   fetched, aux>>

\* one step of the generator: the consumer's next() and what the body does
\* up to the next yield, the end or the failure
GenStep ==
    \/ GenStart
    \/ GenStop
    \/ GenBatch
    \/ GenResume

\* --------------------------------------------------------------------- client

\* retriever.search(...)
ClientSearch ==
    /\ pc = "client"
    /\ searches < MaxSearches
    /\ g_pc \in {"none", "created", "yielded"}
    /\ \E res \in SearchResponses(searches + 1) :
          /\ search(res)
          /\ error' = SearchError(res)
    /\ UNCHANGED <<pc, exit_code, max_records, records, artifacts, calls, sleeps, genv,
                   fetched, aux>>

\* retriever.fetch_all(limit): the generator object is created, nothing runs.
ClientFetchAll ==
    /\ pc = "client"
    /\ g_pc = "none"
    /\ fetched = None
    /\ \E l \in LimitChoices : limit' = l
    /\ g_pc' = "created"
    /\ UNCHANGED <<count0, remaining, start, batch, stream, yielded, retr, remote, mainv,
                   fetched, aux>>

\* list(retriever._fetch_batch(0, size)) called directly.
ClientFetchBatch ==
    /\ pc = "client"
    /\ g_pc = "none"
    /\ fetched = None
    /\ \E size \in {1, BATCH} :
          IF NotInitialized(webenv, query_key)
          THEN /\ error' = "RuntimeError"
               /\ fetched' = Some(0)
               /\ UNCHANGED calls
          ELSE \E resp \in FetchResponses(webenv, query_key, 0, size) :
                  /\ calls' = Append(calls, FetchCall(0, size, resp))
                  /\ error' = IF resp.ok THEN "" ELSE "RemoteFetchError"
                  /\ fetched' = Some(resp.n)
    /\ UNCHANGED <<pc, exit_code, max_records, records, artifacts, retr, sessions, searches,
                   last_res, returned, sleeps, genv, aux>>

\* ----------------------------------------------------------------------- Spec

\* the query builder and the writers are not in use
AuxIdle ==
    /\ taxid = ""
    /\ min_len = None
    /\ max_len = None
    /\ query = <<>>
    /\ in_records = <<>>
    /\ rows = None
    /\ plotted = None

Init ==
    /\ pc = "client"
    /\ exit_code = None
    /\ error = ""
    /\ max_records = None
    /\ records = <<>>
    /\ artifacts = <<>>
    /\ webenv = None
    /\ query_key = None
    /\ count = 0
    /\ sessions = <<>>
    /\ searches = 0
    /\ calls = <<>>
    /\ sleeps = 0
    /\ g_pc = "none"
    /\ limit = None
    /\ count0 = 0
    /\ remaining = 0
    /\ start = 0
    /\ batch = 0
    /\ stream = <<0, 0, TRUE>>
    /\ yielded = <<>>
    /\ fetched = None
    /\ last_res = None
    /\ returned = None
    /\ AuxIdle

Next ==
    \/ ClientSearch
    \/ ClientFetchAll
    \/ ClientFetchBatch
    \/ GenStart
    \/ GenStop
    \/ GenBatch
    \/ GenResume

Spec == Init /\ [][Next]_vars

\* ----------------------------------------------------------------------- main

\* retriever = NCBIRetriever(...); total = retriever.search(...); the zero test;
\* the call of fetch_all (which only creates the generator).
MainSearch ==
    /\ pc = "search"
    /\ \E res \in SearchResponses(searches + 1) :
          /\ search(res)
          /\ IF SearchError(res) # ""
             THEN Raise(SearchError(res)) /\ UNCHANGED <<g_pc, limit>>
             ELSE IF NoMatches(SearchState(res)[3])
             THEN /\ pc' = "exit"
                  /\ exit_code' = Some(0)
                  /\ UNCHANGED <<error, g_pc, limit>>
             ELSE /\ pc' = "fetch"
                  /\ g_pc' = "created"
                  /\ limit' = max_records
                  /\ UNCHANGED <<error, exit_code>>
    /\ UNCHANGED <<max_records, records, artifacts, calls, sleeps, count0, remaining, start,
                   batch, stream, yielded, fetched, aux>>

\* write_csv(records, csv_file): the file is written, or the write raises.
MainWriteCsv ==
    /\ pc = "write_csv"
    /\ \E io_ok \in BOOLEAN :
          IF io_ok
          THEN /\ artifacts' = Append(artifacts, "csv")
               /\ pc' = "plot"
               /\ UNCHANGED <<exit_code, error>>
          ELSE Raise("IOError") /\ UNCHANGED artifacts
    /\ UNCHANGED <<max_records, records, retr, remote, genv, fetched, aux>>

\* plot_lengths(records, png_file), then main() returns.
MainPlot ==
    /\ pc = "plot"
    /\ \E io_ok \in BOOLEAN :
          IF io_ok
          THEN /\ artifacts' = Append(artifacts, "png")
               /\ pc' = "exit"
               /\ exit_code' = Some(0)
               /\ UNCHANGED error
          ELSE Raise("IOError") /\ UNCHANGED artifacts
    /\ UNCHANGED <<max_records, records, retr, remote, genv, fetched, aux>>

InitMain ==
    /\ pc = "search"
    /\ exit_code = None
    /\ error = ""
    /\ max_records \in LimitChoices
    /\ records = <<>>
    /\ artifacts = <<>>
    /\ webenv = None
    /\ query_key = None
    /\ count = 0
    /\ sessions = <<>>
    /\ searches = 0
    /\ calls = <<>>
    /\ sleeps = 0
    /\ g_pc = "none"
    /\ limit = None
    /\ count0 = 0
    /\ remaining = 0
    /\ start = 0
    /\ batch = 0
    /\ stream = <<0, 0, TRUE>>
    /\ yielded = <<>>
    /\ fetched = None
    /\ last_res = None
    /\ returned = None
    /\ AuxIdle

NextMain ==
    \/ MainSearch
    \/ GenStart
    \/ GenStop
    \/ GenBatch
    \/ GenResume
    \/ MainWriteCsv
    \/ MainPlot

SpecMain == InitMain /\ [][NextMain]_vars

\* ---------------------------------------------------------------- search: query

DefaultMin == 1            \* the lower bound used when min_len is absent
DefaultMax == 1000000000   \* the upper bound used when max_len is absent
MaxLenArg == 3             \* length bounds entered are 0..MaxLenArg or DefaultMax

TaxidChoices == {"", "562", "9606"}
LenChoices == {None} \cup {Some(n) : n \in (0..MaxLenArg) \cup {DefaultMax}}

\* an integer as an f-string renders it
Str(n) == ToString(n)

\* faulty variant: "min_len or 1", which takes 0 for absent
LowerBoundTruthy(mn) == IF mn # None /\ Val(mn) # 0 THEN Val(mn) ELSE DefaultMin

\* _min
LowerBound(mn) == IF mn # None THEN Val(mn) ELSE DefaultMin

\* _max
UpperBound(mx) == IF mx # None THEN Val(mx) ELSE DefaultMax

\* the term, as the sequence of the pieces the two f-strings join
BuildQuery(t, mn, mx) ==
    LET base == <<"txid", t, "[Organism]">> IN
    IF mn # None \/ mx # None
    THEN base \o <<" AND ", Str(LowerBound(mn)), ":", Str(UpperBound(mx)), "[SLEN]">>
    ELSE base

\* the retriever, the remote service, main() and the generator as constructed
Constructed ==
    /\ exit_code = None
    /\ error = ""
    /\ max_records = None
    /\ records = <<>>
    /\ artifacts = <<>>
    /\ webenv = None
    /\ query_key = None
    /\ count = 0
    /\ sessions = <<>>
    /\ searches = 0
    /\ calls = <<>>
    /\ sleeps = 0
    /\ g_pc = "none"
    /\ limit = None
    /\ count0 = 0
    /\ remaining = 0
    /\ start = 0
    /\ batch = 0
    /\ stream = <<0, 0, TRUE>>
    /\ yielded = <<>>
    /\ fetched = None
    /\ last_res = None
    /\ returned = None

\* search, lines 27-31: the term is built from the arguments.
SearchBuildsQuery ==
    /\ pc = "query"
    /\ query' = BuildQuery(taxid, min_len, max_len)
    /\ pc' = "queried"
    /\ UNCHANGED <<exit_code, error, max_records, records, artifacts, retr, remote, genv,
                   fetched, taxid, min_len, max_len, in_records, rows, plotted>>

InitQuery ==
    /\ Constructed
    /\ pc = "query"
    /\ taxid \in TaxidChoices
    /\ min_len \in LenChoices
    /\ max_len \in LenChoices
    /\ query = <<>>
    /\ in_records = <<>>
    /\ rows = None
    /\ plotted = None

NextQuery == SearchBuildsQuery

SpecQuery == InitQuery /\ [][NextQuery]_vars

\* The client of the termination check searches at most once, before or in
\* the middle of the retrieval.
ClientSearchOnce == searches = 0 /\ ClientSearch

NextLive ==
    \/ ClientSearchOnce
    \/ ClientFetchAll
    \/ ClientFetchBatch
    \/ GenStart
    \/ GenStop
    \/ GenBatch
    \/ GenResume

\* The consumer keeps pulling and every remote call returns: a generator that
\* can take a step takes one.
SpecLive == Init /\ [][NextLive]_vars /\ WF_vars(GenStep)

\* the same with the unrestricted client
SpecLiveAll == Init /\ [][Next]_vars /\ WF_vars(GenStep)

\* ------------------------------------------------------ write_csv, plot_lengths

MaxRecs == 3       \* records in the list given to the writers
MaxSeqLen == 2     \* sequence lengths are 0..MaxSeqLen

DescChoices == {"", "d"}

\* the record lists: the i-th record has accession Str(i)
RecordLists ==
    UNION {{[i \in 1..n |-> [id |-> Str(i), len |-> L[i], description |-> D[i]]] :
              L \in [1..n -> 0..MaxSeqLen], D \in [1..n -> DescChoices]} : n \in 0..MaxRecs}

Header == <<"Accession", "Length", "Description">>

\* one data row: csv.writer renders the length as text
CsvRow(r) == <<r.id, Str(r.len), r.description>>

\* faulty variant: the header row is written after the data rows
CsvRowsHeaderLast(rs) == [i \in 1..Len(rs) |-> CsvRow(rs[i])] \o <<Header>>

\* the rows write_csv writes for the list rs
CsvRows(rs) == <<Header>> \o [i \in 1..Len(rs) |-> CsvRow(rs[i])]

\* faulty variant: r goes in front of the records of equal length (what
\* sorting ascending and reversing the result does)
InsertDescBeforeTies(sorted, r) ==
    LET p == Cardinality({i \in 1..Len(sorted) : sorted[i].len > r.len})
    IN SubSeq(sorted, 1, p) \o <<r>> \o SubSeq(sorted, p + 1, Len(sorted))

\* r joins a list sorted by descending length behind every record that is at
\* least as long: sorted(..., reverse=True) keeps equal keys in input order
InsertDesc(sorted, r) ==
    LET p == Cardinality({i \in 1..Len(sorted) : sorted[i].len >= r.len})
    IN SubSeq(sorted, 1, p) \o <<r>> \o SubSeq(sorted, p + 1, Len(sorted))

\* sorted(records, key=lambda r: len(r.seq), reverse=True)
RECURSIVE SortedRecs(_)
SortedRecs(rs) ==
    IF rs = <<>> THEN <<>>
    ELSE InsertDesc(SortedRecs(SubSeq(rs, 1, Len(rs) - 1)), rs[Len(rs)])

\* write_csv(records, path)
WriteCsv ==
    /\ pc = "report_csv"
    /\ rows' = CsvRows(in_records)
    /\ pc' = "report_plot"
    /\ UNCHANGED <<exit_code, error, max_records, records, artifacts, retr, remote, genv,
                   fetched, taxid, min_len, max_len, query, in_records, plotted>>

\* plot_lengths(records, path): accs and lengths of the sorted copy are plotted
PlotLengths ==
    /\ pc = "report_plot"
    /\ LET sorted_recs == SortedRecs(in_records) IN
       plotted' = <<[i \in 1..Len(sorted_recs) |-> sorted_recs[i].id],
                    [i \in 1..Len(sorted_recs) |-> sorted_recs[i].len]>>
    /\ pc' = "reported"
    /\ UNCHANGED <<exit_code, error, max_records, records, artifacts, retr, remote, genv,
                   fetched, taxid, min_len, max_len, query, in_records, rows>>

InitReport ==
    /\ Constructed
    /\ pc = "report_csv"
    /\ taxid = ""
    /\ min_len = None
    /\ max_len = None
    /\ query = <<>>
    /\ in_records \in RecordLists
    /\ rows = None
    /\ plotted = None

NextReport ==
    \/ WriteCsv
    \/ PlotLengths

SpecReport == InitReport /\ [][NextReport]_vars

\* --------------------------------------------------------------------- claims

\* the effective count E of a retrieval, from its limit and the total count
\* it read when it started
EffectiveCount == IF limit = None THEN count0 ELSE Min(Val(limit), count0)

CeilDiv(a, b) == (a + b - 1) \div b

\* a retrieval exists and its body has started
Started == g_pc \in {"loop", "yielded", "done", "failed"}

LimitNonNegative == limit = None \/ Val(limit) >= 0

\* the positions lo .. lo + n - 1, in order
Range(lo, n) == [j \in 1..n |-> lo + j - 1]

\* the records the streams of the calls cs delivered, in call order
RECURSIVE Delivered(_)
Delivered(cs) ==
    IF cs = <<>> THEN <<>>
    ELSE Delivered(SubSeq(cs, 1, Len(cs) - 1)) \o Range(cs[Len(cs)].retstart, cs[Len(cs)].n)

\* every call returned exactly the records of its window
WellBehaved == \A i \in 1..Len(calls) : calls[i].ok /\ calls[i].n = calls[i].retmax

\* C1: a retrieval consumed to the end issued exactly ceil(E / 500) batch
\* calls, for every total count and every limit that is absent or >= 0, and
\* zero calls exactly when E = 0.
C1_BatchCallCount ==
    (g_pc = "done" /\ LimitNonNegative) =>
        /\ Len(calls) = CeilDiv(EffectiveCount, 500)
        /\ (Len(calls) = 0 <=> EffectiveCount = 0)

C1_Witness ==
    /\ g_pc = "done"
    /\ limit = None
    /\ count0 = 1200
    /\ Len(calls) = 3
    /\ <<calls[1].retmax, calls[2].retmax, calls[3].retmax>> = <<500, 500, 200>>

\* C2: the first batch call starts at offset 0 and each next call starts where
\* the previous window ended, whatever the previous stream delivered.
C2_ContiguousWindows ==
    (Started /\ calls # <<>>) =>
        /\ calls[1].retstart = 0
        /\ \A i \in 1..(Len(calls) - 1) :
              calls[i + 1].retstart = calls[i].retstart + calls[i].retmax

C2_Witness ==
    /\ Len(calls) = 3
    /\ calls[1].n = 0
    /\ calls[2].n = 1
    /\ <<calls[1].retstart, calls[2].retstart, calls[3].retstart>> = <<0, 500, 1000>>

\* C3 (as claimed): a completed retrieval of N >= 1 batches invoked the delay
\* exactly N - 1 times.
C3_DelayBetweenBatchesOnly ==
    (g_pc = "done" /\ Len(calls) >= 1) => sleeps = Len(calls) - 1

\* C4: every batch call of a retrieval requests 1 <= size <= 500 at an
\* offset >= 0.
C4_WindowBounds ==
    Started =>
        \A i \in 1..Len(calls) :
            /\ 1 <= calls[i].retmax
            /\ calls[i].retmax <= 500
            /\ calls[i].retstart >= 0

C4_Witness ==
    /\ Started
    /\ Len(calls) = 2
    /\ calls[1].retmax = 500
    /\ calls[2].retmax = 1

\* C5: with a well-behaved remote source a retrieval consumed to the end
\* produced exactly the records at positions 0 .. E - 1 in ascending order
\* (none when E <= 0), E of them when E >= 0.
C5_ExactSequence ==
    (g_pc = "done" /\ WellBehaved) =>
        /\ yielded = Range(0, Max(EffectiveCount, 0))
        /\ (EffectiveCount >= 0 => Len(yielded) = EffectiveCount)

C5_Witness ==
    /\ g_pc = "done"
    /\ WellBehaved
    /\ limit = Some(501)
    /\ count0 = 1200
    /\ Len(yielded) = 501
    /\ Len(calls) = 2

\* the state part of C6: every call but the last ended cleanly, and a failed
\* retrieval has reported its failure and yielded all that was delivered
C6_FailureState ==
    /\ \A i \in 1..(Len(calls) - 1) : calls[i].ok
    /\ (g_pc = "failed") =>
          /\ error # ""
          /\ calls # <<>>
          /\ ~calls[Len(calls)].ok
          /\ yielded = Delivered(calls)

\* C6: no batch call follows a failed one (no retry, no further batch); when a
\* batch fails the failure reaches the consumer, everything the calls delivered
\* before the failure had been yielded, in order, and from then on the
\* generator stays failed: no call, no record, no delay.
C6_FailureHalts ==
    [](C6_FailureState)
    /\ [][g_pc = "failed" => (g_pc' = "failed" /\ calls' = calls /\ yielded' = yielded
                              /\ sleeps' = sleeps)]_vars

C6_Witness ==
    /\ g_pc = "failed"
    /\ Len(calls) = 2
    /\ calls[1].ok
    /\ Len(yielded) = 500

\* the state part of C7: every call carries a token and a key that a search stored
C7_CallsCarrySession ==
    \A i \in 1..Len(calls) :
        /\ calls[i].webenv # None
        /\ calls[i].query_key # None
        /\ Val(calls[i].webenv) \in 1..searches
        /\ Val(calls[i].query_key) \in 1..searches

\* C7: a remote fetch call is only ever issued with a session token and a query
\* key that a search has stored; a batch fetch invoked without one of them
\* raises the not-initialized error and issues no call.
C7_GuardedFetch ==
    [](C7_CallsCarrySession)
    /\ [][(fetched = None /\ fetched' # None /\ (webenv = None \/ query_key = None))
            => (error' = "RuntimeError" /\ calls' = calls)]_vars

C7_Witness ==
    /\ fetched # None
    /\ webenv # None
    /\ query_key = None
    /\ error = "RuntimeError"
    /\ calls = <<>>

\* C8: in main(), a search that succeeds with a total count of 0 leads
\* directly to the exit with status 0: no batch call, no delay, no artifact.
C8_EmptyOutcome ==
    (pc # "search" /\ error = "" /\ sessions = <<0>>) =>
        /\ pc = "exit"
        /\ exit_code = Some(0)
        /\ g_pc = "none"
        /\ calls = <<>>
        /\ sleeps = 0
        /\ artifacts = <<>>
        /\ ~ENABLED NextMain

C8_Witness ==
    /\ pc = "exit"
    /\ sessions = <<0>>
    /\ count = 0
    /\ webenv = Some(1)
    /\ exit_code = Some(0)

\* C9: in main(), a total count > 0 with zero records retrieved exits with a
\* status that is neither 0 nor absent and writes no artifact; a retrieval that
\* ended without failure with at least one record writes the CSV, then the
\* chart, and nothing is ever written in another order.
C9_ExitBehaviour ==
    /\ (g_pc = "done" /\ yielded = <<>>) =>
          /\ pc = "exit"
          /\ exit_code # None
          /\ Val(exit_code) # 0
          /\ artifacts = <<>>
    /\ (g_pc = "done" /\ yielded # <<>> /\ pc = "exit" /\ error = "") =>
          /\ artifacts = <<"csv", "png">>
          /\ exit_code = Some(0)
          /\ records = yielded
    /\ artifacts \in {<<>>, <<"csv">>, <<"csv", "png">>}
    /\ artifacts # <<>> => (g_pc = "done" /\ records # <<>>)

C9_WitnessEmptyStreams ==
    /\ pc = "exit"
    /\ g_pc = "done"
    /\ yielded = <<>>
    /\ Len(calls) = 3
    /\ exit_code = Some(1)

C9_Witness ==
    /\ pc = "exit"
    /\ artifacts = <<"csv", "png">>
    /\ Len(records) = 1200

\* C10: in main(), a failure of the search call or of a batch call ends the
\* run: the exception reaches the top level (exit status 1), nothing further
\* is enabled, and no artifact is written whatever had been retrieved.
C10_FailedOutcome ==
    (error \in {"RemoteError", "KeyError", "ValueError", "RemoteFetchError", "RuntimeError"}) =>
        /\ pc = "exit"
        /\ exit_code = Some(1)
        /\ artifacts = <<>>
        /\ records = <<>>
        /\ ~ENABLED NextMain

C10_Witness ==
    /\ error = "RemoteFetchError"
    /\ pc = "exit"
    /\ Len(calls) = 3
    /\ Len(yielded) = 1001

\* C11 (as claimed): all batch calls of one retrieval carry the same session
\* token and query key, whatever the client does between two pulls.
C11_OneSessionPerRetrieval ==
    Started =>
        \A i \in 1..Len(calls) :
            /\ calls[i].webenv = calls[1].webenv
            /\ calls[i].query_key = calls[1].query_key

\* the response lacks the count, the token or the key, or the call failed
Malformed(res) ==
    res.err \/ res.WebEnv = None \/ res.QueryKey = None \/ res.Count = None

\* C12: one search invocation issues exactly one esearch call; it raises
\* whenever the call errors or the response lacks the count, the token or the
\* key; on a well-formed response with count 0 it raises nothing and returns 0.
C12_SearchOutcome ==
    [][searches' # searches =>
         /\ searches' = searches + 1
         /\ Malformed(last_res') => (error' # "" /\ returned' = returned)
         /\ (~Malformed(last_res') /\ last_res'.Count = Some(0)) =>
                (error' = "" /\ returned' = Some(0) /\ count' = 0)]_vars

C12_Witness ==
    /\ searches = 2
    /\ returned = Some(0)
    /\ error = ""
    /\ count = 0
    /\ webenv = Some(2)

C12_WitnessFailed ==
    /\ searches = 2
    /\ returned = Some(1200)
    /\ error = "KeyError"
    /\ last_res.QueryKey = None

\* C13: the term is txid<ID>[Organism]; the clause " AND <min>:<max>[SLEN]"
\* follows exactly when a bound is present, an absent lower bound rendered as
\* 1, an absent upper bound as 1000000000, a present bound (0 and min > max
\* included) rendered unchanged.
C13_QueryTerm ==
    pc = "queried" =>
        /\ SubSeq(query, 1, 3) = <<"txid", taxid, "[Organism]">>
        /\ (min_len = None /\ max_len = None) => Len(query) = 3
        /\ (min_len # None \/ max_len # None) =>
              /\ Len(query) = 8
              /\ query[4] = " AND "
              /\ query[5] = IF min_len = None THEN "1" ELSE ToString(Val(min_len))
              /\ query[6] = ":"
              /\ query[7] = IF max_len = None THEN "1000000000" ELSE ToString(Val(max_len))
              /\ query[8] = "[SLEN]"

C13_Witness ==
    /\ pc = "queried"
    /\ min_len = Some(0)
    /\ max_len = None
    /\ query = <<"txid", "9606", "[Organism]", " AND ", "0", ":", "1000000000", "[SLEN]">>

C13_WitnessInverted ==
    /\ pc = "queried"
    /\ min_len = Some(3)
    /\ max_len = Some(1)
    /\ query[5] = "3"
    /\ query[7] = "1"

\* the place of the record with accession a in the input list
InputIndex(a) == CHOOSE k \in 1..Len(in_records) : in_records[k].id = a

\* the state part of C14: what was plotted is the input rearranged, longest
\* first, records of equal length in input order
C14_PlottedOrder ==
    pc = "reported" =>
        LET accs == plotted[1]
            lengths == plotted[2]
            n == Len(in_records)
        IN /\ Len(accs) = n
           /\ Len(lengths) = n
           /\ {accs[i] : i \in 1..n} = {in_records[i].id : i \in 1..n}
           /\ \A i \in 1..n : lengths[i] = in_records[InputIndex(accs[i])].len
           /\ \A i \in 1..(n - 1) : lengths[i] >= lengths[i + 1]
           /\ \A i, j \in 1..n :
                 (i < j /\ lengths[i] = lengths[j]) => InputIndex(accs[i]) < InputIndex(accs[j])

\* C14: the order plot_lengths derives is a permutation of the input that is
\* non-increasing by sequence length and keeps records of equal length in
\* their input order; the input list itself is never changed.
C14_StableDescendingSort ==
    [](C14_PlottedOrder) /\ [][in_records' = in_records]_vars

C14_Witness ==
    /\ pc = "reported"
    /\ Len(in_records) = 3
    /\ <<in_records[1].len, in_records[2].len, in_records[3].len>> = <<1, 2, 1>>
    /\ plotted = <<<<"2", "1", "3">>, <<2, 1, 1>>>>

\* C15: write_csv writes n + 1 rows for n records: the header first, then one
\* row (accession, length, description) per record in input order.
C15_CsvRows ==
    pc \in {"report_plot", "reported"} =>
        /\ Len(rows) = Len(in_records) + 1
        /\ rows[1] = <<"Accession", "Length", "Description">>
        /\ \A i \in 1..Len(in_records) :
              rows[i + 1] = <<in_records[i].id, ToString(in_records[i].len),
                              in_records[i].description>>

C15_Witness ==
    /\ pc = "report_plot"
    /\ Len(rows) = 4
    /\ rows[2] = <<"1", "0", "d">>
    /\ rows[3] = <<"2", "2", "">>
    /\ rows[4] = <<"3", "1", "d">>

\* C16: the batches of one retrieval are sequential and paced: when the call
\* for batch k+1 is issued, every record of batch k's stream has been
\* forwarded to the consumer and the delay has been invoked at least once
\* since batch k's call.
C16_SequentialPaced ==
    Started =>
        \A k \in 1..(Len(calls) - 1) :
            /\ calls[k + 1].yielded = calls[k].yielded + calls[k].n
            /\ calls[k + 1].sleeps >= calls[k].sleeps + 1

C16_Witness ==
    /\ Started
    /\ Len(calls) = 3
    /\ calls[1].n = BATCH
    /\ calls[2].yielded = BATCH
    /\ calls[3].yielded = 2 * BATCH
    /\ calls[3].sleeps = calls[1].sleeps + 2

\* C19: start + remaining equals the effective count E fixed when the
\* retrieval started, at every batch call and in between; every requested
\* window ends at or before E, and E is at most the total count.
C19_OffsetPlusRemaining ==
    Started =>
        /\ start + remaining = EffectiveCount
        /\ EffectiveCount <= count0
        /\ \A k \in 1..Len(calls) :
              /\ calls[k].retstart + calls[k].retmax <= EffectiveCount
              /\ calls[k].retstart + calls[k].retmax <= count0

C19_Witness ==
    /\ g_pc = "yielded"
    /\ limit = None
    /\ count0 = MaxCount
    /\ Len(calls) = 3
    /\ calls[3].retstart = 2 * BATCH
    /\ calls[3].retmax = MaxCount - 2 * BATCH
    /\ start = 2 * BATCH
    /\ remaining = MaxCount - 2 * BATCH

\* the state part of C17: decrementing never takes remaining below 0, and a
\* retrieval that ended without failure ended with remaining = 0
C17_RemainingExact ==
    (Started /\ EffectiveCount >= 0) =>
        /\ remaining >= 0
        /\ (g_pc = "done" => remaining = 0)

\* C17: for every total count and every limit (absent, zero, positive or
\* negative) a retrieval whose consumer keeps pulling terminates, and when it
\* ends without failure and the effective count was >= 0, remaining is 0.
C17_Terminates ==
    /\ (g_pc = "created") ~> (g_pc \in {"done", "failed"})
    /\ [](C17_RemainingExact)

C17_Witness ==
    /\ g_pc = "done"
    /\ limit = Some(BATCH + 1)
    /\ count0 = MaxCount
    /\ Len(calls) = 2
    /\ remaining = 0

C17_WitnessNegative ==
    /\ g_pc = "done"
    /\ limit = Some(-1)
    /\ count0 = MaxCount
    /\ calls = <<>>
    /\ remaining = -1

\* C18: a search that raises (remote error, a response missing the token, the
\* query key or the count, or a non-integer count) leaves the retriever's
\* session token, query key and total count as they were before the call.
C18_FailedSearchKeepsSession ==
    [][(searches' # searches /\ SearchError(last_res') # "") =>
          (webenv' = webenv /\ query_key' = query_key /\ count' = count)]_vars

\* C20: a fetch_all retrieval on a retriever on which no search has ever
\* succeeded issues no remote call, invokes no delay and yields nothing, and
\* it does not fail: the not-initialized error is not raised, for every limit.
\* The use-before-search guard is never triggered through fetch_all at all.
C20_NeverSearchedRetrieval ==
    /\ (Started /\ returned = None) =>
          /\ count0 = 0
          /\ calls = <<>>
          /\ sleeps = 0
          /\ yielded = <<>>
          /\ g_pc # "failed"
          /\ error # "RuntimeError"
    /\ Started => error # "RuntimeError"

C20_Witness ==
    /\ g_pc = "done"
    /\ returned = None
    /\ searches = 0
    /\ webenv = None
    /\ limit = Some(BATCH + 1)
    /\ calls = <<>>

C20_WitnessHalfSession ==
    /\ g_pc = "done"
    /\ returned = None
    /\ webenv # None
    /\ query_key = None
    /\ limit = None
    /\ calls = <<>>
====
